---- MODULE Spec2Model ----
(***************************************************************************)
(* Request validation of the Django/Mongo boilerplate:                     *)
(*   boilerplate/middlewares/request_validation.py                         *)
(*   boilerplate/middlewares/handle_exception.py                           *)
(*   commons/utils/http_error.py, commons/utils/default_model_manager.py   *)
(*                                                                         *)
(* A Python str is a sequence of lexemes (TLA+ strings): a value that      *)
(* arrives in a request is spelled character by character, a literal of    *)
(* the source and a configured name are one lexeme each, and + on str is   *)
(* \o.  "LF" is the newline character and "SUP2" the superscript two       *)
(* (U+00B2).  Other Python values are records tagged by their type.        *)
(***************************************************************************)
EXTENDS Integers, Sequences, FiniteSets, TLC

VARIABLES
    store,        \* documents of the RequestValidationConfig collection
    pc,           \* position of the request in the middleware chain
    request,      \* the request being served
    outcome,      \* how request_validator ended
    response,     \* the errors map request_validator built
    log,          \* per-rule record of what validate_params did
    ruleFound,    \* whether get_one returned a rule-set
    bodyCheck,    \* what request_validator did with the body
    viewResult,   \* what the next handler returned or raised
    errorLog,     \* entries HandleExceptionMiddleware wrote to error_logger
    httpResponse, \* what HandleExceptionMiddleware returned
    handlerCalls, \* calls of the next handler (get_response) for this request
    storeReads,   \* reads of the configuration store for this request
    document,     \* ValidateParamType.__document
    value,        \* ValidateParamType.__value
    result,       \* what ValidateParamType.validate produced
    previous,     \* how request_validator ended the first time for this request
    httpError,    \* an HttpError being constructed: its class, arguments and response
    documents,    \* documents of the collection behind a DefaultManager
    before,       \* the collection as it was when the manager was called
    call,         \* the DefaultManager method called and its arguments
    returned      \* what the method returned or raised

vars == <<store, pc, request, outcome, response, log, ruleFound, bodyCheck,
          viewResult, errorLog, httpResponse, handlerCalls, storeReads,
          document, value, result, previous, httpError, documents, before, call,
          returned>>

(***************************************************************************)
(* Bounds                                                                  *)
(***************************************************************************)
MaxLen == 3

(***************************************************************************)
(* Python values                                                           *)
(***************************************************************************)
None == [py |-> "None"]
PyStr(s) == [py |-> "str", s |-> s]
PyInt(n) == [py |-> "int", n |-> n]
\* the decimal m / 10^e
PyFloat(m, e) == [py |-> "float", m |-> m, e |-> e]
\* datetime(year, 1, 1)
PyDate(y) == [py |-> "date", year |-> y]
PyList(items) == [py |-> "list", items |-> items]
PyRange(lo, hi) == [py |-> "dict", min |-> lo, max |-> hi]

DecimalChars == {"0", "1", "2", "3", "4", "5", "6", "7", "8", "9"}
\* characters str.isdigit() takes for digits and int() does not
SuperscriptChars == {"SUP2"}
HexChars == DecimalChars \cup {"a", "b", "c", "d", "e", "f"}
Alphabet == {"0", "1", ".", "-", "LF", "SUP2"}

DigitValue(c) ==
    CASE c = "0" -> 0 [] c = "1" -> 1 [] c = "2" -> 2 [] c = "3" -> 3
      [] c = "4" -> 4 [] c = "5" -> 5 [] c = "6" -> 6 [] c = "7" -> 7
      [] c = "8" -> 8 [] c = "9" -> 9

DigitChar(d) ==
    CASE d = 0 -> "0" [] d = 1 -> "1" [] d = 2 -> "2" [] d = 3 -> "3"
      [] d = 4 -> "4" [] d = 5 -> "5" [] d = 6 -> "6" [] d = 7 -> "7"
      [] d = 8 -> "8" [] d = 9 -> "9"

\* ord(c) for the characters of the model
CodePoint(c) ==
    CASE c = "LF" -> 10 [] c = "-" -> 45 [] c = "." -> 46
      [] c \in DecimalChars -> 48 + DigitValue(c)
      [] c = "a" -> 97 [] c = "b" -> 98 [] c = "c" -> 99 [] c = "d" -> 100
      [] c = "e" -> 101 [] c = "f" -> 102 [] c = "g" -> 103
      [] c = "i" -> 105 [] c = "n" -> 110 [] c = "o" -> 111 [] c = "t" -> 116
      [] c = "x" -> 120 [] c = "y" -> 121 [] c = "z" -> 122
      [] c = "SUP2" -> 178
      [] OTHER -> 255

RECURSIVE Pow10(_)
Pow10(e) == IF e = 0 THEN 1 ELSE 10 * Pow10(e - 1)

RECURSIVE DecimalValue(_)
DecimalValue(s) ==
    IF s = <<>> THEN 0
    ELSE 10 * DecimalValue(SubSeq(s, 1, Len(s) - 1)) + DigitValue(s[Len(s)])

RECURSIVE NatToStr(_)
NatToStr(n) ==
    IF n < 10 THEN <<DigitChar(n)>>
    ELSE Append(NatToStr(n \div 10), DigitChar(n % 10))

IntToStr(n) == IF n < 0 THEN <<"-">> \o NatToStr(0 - n) ELSE NatToStr(n)

\* str(x)
str(x) ==
    CASE x.py = "str" -> x.s
      [] x.py = "int" -> IntToStr(x.n)
      [] x.py = "date" -> IntToStr(x.year) \o <<"-01-01 00:00:00">>
      [] x.py = "None" -> <<"None">>

\* bool(x)
Truthy(x) ==
    CASE x.py = "None" -> FALSE
      [] x.py = "str" -> x.s # <<>>
      [] x.py = "int" -> x.n # 0
      [] x.py = "list" -> x.items # <<>>
      [] x.py = "query" -> x.pairs # <<>>
      [] OTHER -> TRUE

\* str.isdigit()
isdigit(s) ==
    /\ Len(s) > 0
    /\ \A i \in 1..Len(s) : s[i] \in DecimalChars \cup SuperscriptChars

\* s.strip() for the whitespace of the model, the newline
RECURSIVE strip(_)
strip(s) ==
    IF s # <<>> /\ Head(s) = "LF" THEN strip(Tail(s))
    ELSE IF s # <<>> /\ s[Len(s)] = "LF" THEN strip(SubSeq(s, 1, Len(s) - 1))
    ELSE s

IsDecimal(s) == Len(s) > 0 /\ \A i \in 1..Len(s) : s[i] \in DecimalChars

\* int(s) of a str: surrounding whitespace dropped, an optional sign, decimal digits;
\* anything else is a ValueError
int(s) ==
    LET body == strip(s)
    IN IF IsDecimal(body)
       THEN [exc |-> "none", val |-> PyInt(DecimalValue(body))]
       ELSE IF body # <<>> /\ Head(body) = "-" /\ IsDecimal(Tail(body))
       THEN [exc |-> "none", val |-> PyInt(0 - DecimalValue(Tail(body)))]
       ELSE [exc |-> "ValueError", val |-> None]

(***************************************************************************)
(* Regular expressions: a pattern is a sequence of atoms, an atom one      *)
(* character of a set ("one"), one or more of them ("plus"), or the end    *)
(* anchor $ ("end").                                                       *)
(***************************************************************************)
One(set) == [kind |-> "one", set |-> set]
Plus(set) == [kind |-> "plus", set |-> set]
End == [kind |-> "end", set |-> {}]

\* whether the atoms match s from position i on; nothing is required of what follows
\* the match, and $ holds at the end and before a final newline
RECURSIVE MatchFrom(_, _, _)
MatchFrom(atoms, s, i) ==
    IF atoms = <<>> THEN TRUE
    ELSE LET a == Head(atoms)
             rest == Tail(atoms)
         IN CASE a.kind = "end" ->
                   /\ \/ i = Len(s) + 1
                      \/ i = Len(s) /\ s[i] = "LF"
                   /\ MatchFrom(rest, s, i)
              [] a.kind = "one" ->
                   /\ i <= Len(s)
                   /\ s[i] \in a.set
                   /\ MatchFrom(rest, s, i + 1)
              [] a.kind = "plus" ->
                   \E k \in 1..(Len(s) - i + 1) :
                       /\ \A j \in i..(i + k - 1) : s[j] \in a.set
                       /\ MatchFrom(rest, s, i + k)

\* re.compile for the patterns the model uses
Compile(src) ==
    CASE src = <<"^\\d+?\\.\\d+?$">> ->
             <<Plus(DecimalChars), One({"."}), Plus(DecimalChars), End>>
      [] src = <<"1+">> -> <<Plus({"1"})>>
      [] src = <<"^1+$">> -> <<Plus({"1"}), End>>
      [] src = <<"^[01]$">> -> <<One({"0", "1"}), End>>

\* re.match(pattern, string) is not None
re_match(src, s) == MatchFrom(Compile(src), s, 1)

\* float(s) of a str the float pattern matched: digits '.' digits, a final newline dropped
float(s) ==
    LET t == IF s[Len(s)] = "LF" THEN SubSeq(s, 1, Len(s) - 1) ELSE s
        dot == CHOOSE i \in 1..Len(t) : t[i] = "."
    IN PyFloat(DecimalValue(SubSeq(t, 1, dot - 1) \o SubSeq(t, dot + 1, Len(t))),
             Len(t) - dot)

\* hexadecimal characters of any number: ObjectId.is_valid without its length test
HexString(s) == \A i \in 1..Len(s) : s[i] \in HexChars

\* ObjectId.is_valid(s) of a str: 24 hexadecimal characters
ObjectId_is_valid(s) ==
    /\ Len(s) = 24
    /\ \A i \in 1..Len(s) : s[i] \in HexChars

\* datetime.strptime(s, fmt) for formats made of %y and literal characters
RECURSIVE StrpMatch(_, _, _)
StrpMatch(fmt, s, i) ==
    IF fmt = <<>> THEN i = Len(s) + 1
    ELSE IF Head(fmt) = "%y"
         THEN /\ i + 1 <= Len(s)
              /\ s[i] \in DecimalChars
              /\ s[i + 1] \in DecimalChars
              /\ StrpMatch(Tail(fmt), s, i + 2)
         ELSE /\ i <= Len(s)
              /\ s[i] = Head(fmt)
              /\ StrpMatch(Tail(fmt), s, i + 1)

RECURSIVE StrpYear(_, _, _)
StrpYear(fmt, s, i) ==
    IF fmt = <<>> THEN 1900
    ELSE IF Head(fmt) = "%y"
         THEN LET yy == DecimalValue(SubSeq(s, i, i + 1))
              IN IF yy <= 68 THEN 2000 + yy ELSE 1900 + yy
         ELSE StrpYear(Tail(fmt), s, i + 1)

strptime(s, fmt) ==
    IF StrpMatch(fmt, s, 1)
    THEN [exc |-> "none", val |-> PyDate(StrpYear(fmt, s, 1))]
    ELSE [exc |-> "ValueError", val |-> None]

(***************************************************************************)
(* Comparison of Python values                                             *)
(***************************************************************************)
Numeric(x) == x.py \in {"int", "float"}
Mantissa(x) == IF x.py = "int" THEN x.n ELSE x.m
Exponent(x) == IF x.py = "int" THEN 0 ELSE x.e

\* s < t for str: by code point, a proper prefix first
RECURSIVE StrLess(_, _)
StrLess(s, t) ==
    IF t = <<>> THEN FALSE
    ELSE IF s = <<>> THEN TRUE
    ELSE IF CodePoint(Head(s)) # CodePoint(Head(t))
         THEN CodePoint(Head(s)) < CodePoint(Head(t))
         ELSE StrLess(Tail(s), Tail(t))

\* whether a <= b, a >= b are defined (otherwise they raise TypeError)
Comparable(a, b) ==
    \/ Numeric(a) /\ Numeric(b)
    \/ a.py = "str" /\ b.py = "str"
    \/ a.py = "date" /\ b.py = "date"

\* a == b
PyEq(a, b) ==
    IF Numeric(a) /\ Numeric(b)
    THEN Mantissa(a) * Pow10(Exponent(b)) = Mantissa(b) * Pow10(Exponent(a))
    ELSE a.py = b.py /\ a = b

\* a < b of comparable values
PyLess(a, b) ==
    CASE Numeric(a) -> Mantissa(a) * Pow10(Exponent(b)) < Mantissa(b) * Pow10(Exponent(a))
      [] a.py = "str" -> StrLess(a.s, b.s)
      [] a.py = "date" -> a.year < b.year

\* a <= b read as a strict comparison
PyLeStrict(a, b) == PyLess(a, b)

\* a <= b of comparable values
PyLe(a, b) == PyLess(a, b) \/ PyEq(a, b)

\* a in values, values a list
PyIn(a, values) == \E i \in 1..Len(values.items) : PyEq(a, values.items[i])

(***************************************************************************)
(* ValidateParamType                                                       *)
(***************************************************************************)
Returned(errors, calls) == [exc |-> "none", errors |-> errors, calls |-> calls]
Raised(exc, calls) == [exc |-> exc, errors |-> <<>>, calls |-> calls]

\* ValidateParamType.__validate_param_constraint
validate_param_constraint(doc, param_value) ==
    LET action_type == doc.action.actionType
        values == doc.action.value
        name == doc.name
    IN CASE action_type = "BETWEEN" ->
              IF ~(Comparable(param_value, values.min) /\ Comparable(param_value, values.max))
              THEN [exc |-> "TypeError", errors |-> <<>>]
              ELSE IF ~(PyLe(values.min, param_value) /\ PyLe(param_value, values.max))
              THEN [exc |-> "none",
                    errors |-> << [message |-> name \o <<" out of range">>,
                                   expectedRange |-> [min |-> str(values.min),
                                                      max |-> str(values.max)]] >>]
              ELSE [exc |-> "none", errors |-> <<>>]
         [] action_type = "EQUALS" ->
              IF ~PyEq(param_value, values)
              THEN [exc |-> "none",
                    errors |-> << [message |-> name \o <<" incorrect value">>,
                                   expectedValue |-> values] >>]
              ELSE [exc |-> "none", errors |-> <<>>]
         [] action_type = "IN" ->
              IF ~PyIn(param_value, values)
              THEN [exc |-> "none",
                    errors |-> << [message |-> name \o <<" incorrect value">>,
                                   expectedValues |-> values] >>]
              ELSE [exc |-> "none", errors |-> <<>>]
         [] action_type = "GREATER_THAN" ->
              IF ~Comparable(param_value, values)
              THEN [exc |-> "TypeError", errors |-> <<>>]
              ELSE IF PyLe(param_value, values)
              THEN \* str + values: defined for a str only
                   IF values.py = "str"
                   THEN [exc |-> "none",
                         errors |-> << [message |-> name \o <<" should be greater than">>
                                                         \o values.s] >>]
                   ELSE [exc |-> "TypeError", errors |-> <<>>]
              ELSE [exc |-> "none", errors |-> <<>>]
         [] action_type = "LESS_THAN" ->
              IF ~Comparable(param_value, values)
              THEN [exc |-> "TypeError", errors |-> <<>>]
              ELSE IF PyLe(values, param_value)
              THEN IF values.py = "str"
                   THEN [exc |-> "none",
                         errors |-> << [message |-> name \o <<" should be less than">>
                                                         \o values.s] >>]
                   ELSE [exc |-> "TypeError", errors |-> <<>>]
              ELSE [exc |-> "none", errors |-> <<>>]
         [] OTHER -> [exc |-> "none", errors |-> <<>>]

\* the shared tail of the type validators: "if self.__document.get('action'): ..."
ActionErrors(r, calls) ==
    IF r.exc # "none" THEN Raised(r.exc, calls) ELSE Returned(r.errors, calls)

CheckAction(doc, param_value, calls) ==
    IF Truthy(doc.action)
    THEN ActionErrors(validate_param_constraint(doc, param_value),
                      Append(calls, "__validate_param_constraint"))
    ELSE Returned(<<>>, calls)

\* ValidateParamType.__validate_integer_params
validate_integer_params(doc, v) ==
    LET calls == <<"__validate_integer_params">>
    IN IF isdigit(str(v))
       THEN IF Truthy(doc.action)
            THEN \* int(self.__value) is evaluated as the argument of the call
                 LET n == IF v.py = "int" THEN [exc |-> "none", val |-> v] ELSE int(v.s)
                 IN IF n.exc # "none" THEN Raised(n.exc, calls)
                    ELSE CheckAction(doc, n.val, calls)
            ELSE Returned(<<>>, calls)
       ELSE Returned(<< [message |-> doc.name \o <<" must be of integer type">>] >>, calls)

\* ValidateParamType.__validate_float_params
validate_float_params(doc, v) ==
    LET calls == <<"__validate_float_params">>
    IN IF ~re_match(<<"^\\d+?\\.\\d+?$">>, str(v))
       THEN Returned(<< [message |-> doc.name \o <<" must be of float type">>] >>, calls)
       ELSE IF Truthy(doc.action)
            THEN \* float(self.__value) is evaluated as the argument of the call
                 CheckAction(doc, float(v.s), calls)
            ELSE Returned(<<>>, calls)

\* ValidateParamType.__validate_object_id_params
validate_object_id_params(doc, v) ==
    LET calls == <<"__validate_object_id_params">>
    IN IF ObjectId_is_valid(str(v))
       THEN CheckAction(doc, v, calls)
       ELSE Returned(<< [message |-> doc.name \o <<" must be of type ObjectId">>] >>, calls)

\* ValidateParamType.__validate_string_params
validate_string_params(doc, v) ==
    LET calls == <<"__validate_string_params">>
    IN IF v.py = "str"
       THEN IF Truthy(doc.regex) /\ ~re_match(doc.regex.s, v.s)
            THEN Returned(<< [message |-> doc.name \o <<" must follow regex ">>
                                                   \o doc.regex.s] >>, calls)
            ELSE CheckAction(doc, v, calls)
       ELSE Returned(<< [message |-> doc.name \o <<" must be of string type">>] >>, calls)

\* ValidateParamType.__validate_date_params
validate_date_params(doc, v) ==
    LET calls == <<"__validate_date_params">>
        date == strptime(str(v), str(doc.format))
    IN IF date.exc = "ValueError"
       THEN Returned(<< [message |-> doc.name \o <<" must be of date type with format ">>
                                              \o doc.format.s] >>, calls)
       ELSE CheckAction(doc, date.val, calls)

\* ValidateParamType.__init__: self.__validation_types
validation_types == {"STRING", "INTEGER", "OBJECT_ID", "FLOAT", "DATE"}

\* ValidateParamType(document, value).validate()
validate(doc, v) ==
    IF doc.dataType \notin validation_types
    THEN Returned(<< [message |-> doc.name \o <<" has unknown data type: ">>
                                           \o <<doc.dataType>>] >>, <<>>)
    ELSE CASE doc.dataType = "STRING" -> validate_string_params(doc, v)
           [] doc.dataType = "INTEGER" -> validate_integer_params(doc, v)
           [] doc.dataType = "OBJECT_ID" -> validate_object_id_params(doc, v)
           [] doc.dataType = "FLOAT" -> validate_float_params(doc, v)
           [] doc.dataType = "DATE" -> validate_date_params(doc, v)

(***************************************************************************)
(* Parameter rules (Params documents) and raw values                       *)
(***************************************************************************)
Action(actionType, v) == [py |-> "dict", actionType |-> actionType, value |-> v]

Doc(name, dataType, regex, isRequired, action, format) ==
    [name |-> name, dataType |-> dataType, regex |-> regex,
     isRequired |-> isRequired, action |-> action, format |-> format]

RECURSIVE StringsUpTo(_)
StringsUpTo(n) ==
    IF n = 0 THEN {<<>>}
    ELSE LET shorter == StringsUpTo(n - 1)
         IN shorter \cup {Append(s, c) : s \in {x \in shorter : Len(x) = n - 1},
                                         c \in Alphabet}

ValidOid == <<"5", "f", "0", "0", "a", "a", "b", "b", "c", "c", "d", "d",
              "e", "e", "f", "f", "0", "1", "2", "3", "4", "5", "6", "7">>
OtherOid == <<"0", "0", "0", "0", "0", "0", "0", "0", "0", "0", "0", "0",
              "0", "0", "0", "0", "0", "0", "0", "0", "0", "0", "0", "1">>

\* values named by the specification's examples, and identifiers around 24 characters
ExampleStrings ==
    { <<"4", "2">>, <<"-", "1">>, <<"4", ".", "2">>, <<"3", ".", "1", "4">>, <<"3">>,
      <<"a", "b", "c">>, <<"x", "y", "z">>, <<"5">>, <<"1", "1">>,
      <<"1", ".", "5", "LF">>, <<"1", "1", "a">>,
      <<"n", "o", "t", "-", "a", "n", "-", "i", "d">>,
      ValidOid, OtherOid, SubSeq(ValidOid, 1, 23), Append(ValidOid, "0"),
      [ValidOid EXCEPT ![24] = "g"] }

\* what a URL capture or a query value can be: a str, or the int of an int path converter
ParamValues ==
    {PyStr(s) : s \in StringsUpTo(MaxLen) \cup ExampleStrings}
        \cup {PyInt(0), PyInt(5), PyInt(11)}

NumActions ==
    { None,
      Action("BETWEEN", PyRange(PyInt(1), PyInt(10))),
      Action("EQUALS", PyInt(1)),
      Action("IN", PyList(<<PyInt(1), PyInt(11)>>)),
      Action("GREATER_THAN", PyInt(1)),
      Action("LESS_THAN", PyInt(10)),
      Action("GREATER_THAN", PyStr(<<"1">>)),
      Action("NOT_EQUALS", PyInt(1)) }

StrActions ==
    { None,
      Action("BETWEEN", PyRange(PyStr(<<"0">>), PyStr(<<"1", "0">>))),
      Action("EQUALS", PyStr(<<"1">>)),
      Action("IN", PyList(<<PyStr(<<"1">>), PyStr(ValidOid)>>)),
      Action("GREATER_THAN", PyStr(<<"1">>)),
      Action("LESS_THAN", PyStr(<<"1", "0">>)),
      Action("NOT_EQUALS", PyStr(<<"1">>)) }

DateActions ==
    { None,
      Action("BETWEEN", PyRange(PyDate(2001), PyDate(2010))),
      Action("EQUALS", PyDate(2001)),
      Action("IN", PyList(<<PyDate(2001), PyDate(2011)>>)),
      Action("GREATER_THAN", PyDate(2001)),
      Action("LESS_THAN", PyDate(2010)) }

Regexes == {None, PyStr(<<"1+">>), PyStr(<<"^1+$">>)}
DateFormat == PyStr(<<"%y">>)

ParamDocs ==
    {Doc(<<"n">>, "INTEGER", None, FALSE, a, None) : a \in NumActions}
        \cup {Doc(<<"x">>, "FLOAT", None, FALSE, a, None) : a \in NumActions}
        \cup {Doc(<<"id">>, "OBJECT_ID", None, FALSE, a, None) : a \in StrActions}
        \cup {Doc(<<"s">>, "STRING", r, FALSE, a, None) : r \in Regexes, a \in StrActions}
        \cup {Doc(<<"from">>, "DATE", None, FALSE, a, DateFormat) : a \in DateActions}
        \cup {Doc(<<"b">>, "BOOLEAN", None, FALSE, a, None) :
                  a \in {None, Action("EQUALS", PyStr(<<"1">>))}}

Pending == [exc |-> "pending", errors |-> <<>>, calls |-> <<>>]

(***************************************************************************)
(* validate_params                                                         *)
(***************************************************************************)
\* dict.get(key) and dict.get(key, default) on a dict modelled as a function
Get(d, key, default) == IF key \in DOMAIN d THEN d[key] ELSE default

\* the value validate_params extracts for one rule
ExtractValue(doc, request_info, param_type) ==
    CASE param_type = "urlParams" -> Get(request_info.url_parameters, doc.name, None)
      [] param_type = "queryParams" ->
             Get(request_info.query_parameters, doc.name, <<PyStr(<<>>)>>)[1]
      [] OTHER -> None

\* "if value: validation_status = ValidateParamType(doc, value).validate()"
ValidationStatus(doc, v) == IF Truthy(v) THEN validate(doc, v) ELSE Returned(<<>>, <<>>)

\* the missing-field error without the test of isRequired
MandatoryForAll(doc, v) ==
    IF ~Truthy(v)
    THEN << [message |-> doc.name \o <<" param is manadatory">>,
             type |-> doc.dataType] >>
    ELSE <<>>

\* "if not value and doc.get('isRequired'): response.append(...)"
Mandatory(doc, v) ==
    IF ~Truthy(v) /\ doc.isRequired
    THEN << [message |-> doc.name \o <<" param is manadatory">>,
             type |-> doc.dataType] >>
    ELSE <<>>

\* what one iteration of the loop did: the errors it appended, whether
\* ValidateParamType ran, what it called, and the exception that ended it
IterationRecord(doc, param_type, v, status) ==
    [doc |-> doc, value |-> v, param_type |-> param_type,
     validated |-> Truthy(v), calls |-> status.calls, exc |-> status.exc,
     errors |-> Mandatory(doc, v) \o status.errors]

IterationOf(doc, param_type, v) ==
    IterationRecord(doc, param_type, v, ValidationStatus(doc, v))

\* one iteration of the loop of validate_params
Iteration(doc, request_info, param_type) ==
    IterationOf(doc, param_type, ExtractValue(doc, request_info, param_type))

\* the loop of validate_params from rule i on; iterations holds those run so far
RECURSIVE ParamsLoop(_, _, _, _, _)
RECURSIVE LoopStep(_, _, _, _, _, _)
ParamsLoop(param_schema, request_info, param_type, i, iterations) ==
    IF i > Len(param_schema)
    THEN [exc |-> "none", iterations |-> iterations]
    ELSE LoopStep(param_schema, request_info, param_type, i, iterations,
                  Iteration(param_schema[i], request_info, param_type))

\* an exception of ValidateParamType leaves the loop
LoopStep(param_schema, request_info, param_type, i, iterations, it) ==
    IF it.exc # "none"
    THEN [exc |-> it.exc, iterations |-> Append(iterations, it)]
    ELSE ParamsLoop(param_schema, request_info, param_type, i + 1,
                    Append(iterations, it))

RECURSIVE Concat(_)
Concat(lists) == IF lists = <<>> THEN <<>> ELSE Head(lists) \o Concat(Tail(lists))

\* "return response if response else None"
ResponseOrNone(resp) == IF resp # <<>> THEN PyList(resp) ELSE None

ParamsResult(run) ==
    [exc |-> run.exc,
     status |-> IF run.exc = "none"
                THEN ResponseOrNone(Concat([k \in 1..Len(run.iterations) |->
                                               run.iterations[k].errors]))
                ELSE None,
     iterations |-> run.iterations]

\* validate_params(param_schema, request_info, param_type)
validate_params(param_schema, request_info, param_type) ==
    ParamsResult(ParamsLoop(param_schema, request_info, param_type, 1, <<>>))

(***************************************************************************)
(* Request bodies: bytes are a sequence of JSON tokens, a token that is no *)
(* valid UTF-8 among them.                                                 *)
(***************************************************************************)
JStr(s) == [t |-> "str", s |-> s]
JNum(n) == [t |-> "num", n |-> n]
JPunct(p) == [t |-> "punct", p |-> p]
JNull == [t |-> "null"]
JBad == [t |-> "bad"]

Bytes(tokens) == [py |-> "bytes", b |-> tokens]
EmptyDict == [py |-> "dict"]
Obj(fields) == [py |-> "obj", fields |-> fields]

IsPunct(tok, p) == tok.t = "punct" /\ tok.p = p
IsScalar(tok) == tok.t \in {"str", "num", "null"}
Scalar(tok) ==
    CASE tok.t = "str" -> PyStr(<<tok.s>>)
      [] tok.t = "num" -> PyInt(tok.n)
      [] tok.t = "null" -> None

\* the members of a JSON object from token i on: key : scalar [, key : scalar]* }
RECURSIVE Members(_, _, _)
Members(toks, i, fields) ==
    IF /\ i + 3 <= Len(toks)
       /\ toks[i].t = "str"
       /\ IsPunct(toks[i + 1], ":")
       /\ IsScalar(toks[i + 2])
    THEN LET f == (toks[i].s :> Scalar(toks[i + 2])) @@ fields
         IN IF IsPunct(toks[i + 3], "}") /\ i + 3 = Len(toks)
            THEN [exc |-> "none", val |-> Obj(f)]
            ELSE IF IsPunct(toks[i + 3], ",")
                 THEN Members(toks, i + 4, f)
                 ELSE [exc |-> "JSONDecodeError", val |-> None]
    ELSE [exc |-> "JSONDecodeError", val |-> None]

\* json.loads(request_info['request_body'].decode('utf-8'))
json_loads_decode(body) ==
    IF body.py # "bytes" THEN [exc |-> "AttributeError", val |-> None]
    ELSE IF \E i \in 1..Len(body.b) : body.b[i].t = "bad"
    THEN [exc |-> "UnicodeDecodeError", val |-> None]
    ELSE LET toks == body.b
         IN IF Len(toks) = 1 /\ IsScalar(toks[1])
            THEN [exc |-> "none", val |-> Scalar(toks[1])]
            ELSE IF Len(toks) = 2 /\ IsPunct(toks[1], "{") /\ IsPunct(toks[2], "}")
            THEN [exc |-> "none", val |-> Obj(<<>>)]
            ELSE IF Len(toks) > 2 /\ IsPunct(toks[1], "{")
            THEN Members(toks, 2, <<>>)
            ELSE [exc |-> "JSONDecodeError", val |-> None]

(***************************************************************************)
(* validate_json_body: Draft4Validator for the keywords type, required and *)
(* properties; a schema is its keywords in document order.                 *)
(***************************************************************************)
Type(name) == [kw |-> "type", type |-> name]
Required(names) == [kw |-> "required", names |-> names]
Properties(props) == [kw |-> "properties", props |-> props]
Property(name, schema) == [name |-> name, schema |-> schema]

\* repr(instance) of a scalar
repr(x) ==
    CASE x.py = "str" -> <<"'">> \o x.s \o <<"'">>
      [] x.py = "int" -> IntToStr(x.n)
      [] x.py = "None" -> <<"None">>
      [] x.py = "obj" -> <<"{...}">>

is_type(x, name) ==
    CASE name = "object" -> x.py = "obj"
      [] name = "string" -> x.py = "str"
      [] name = "integer" -> x.py = "int"
      [] name = "null" -> x.py = "None"
      [] OTHER -> FALSE

\* error.message (a str) of the errors of validator.iter_errors(instance), in the
\* order it yields them
RECURSIVE iter_errors(_, _)
iter_errors(instance, schema) ==
    IF schema = <<>> THEN <<>>
    ELSE LET k == Head(schema)
             here ==
               CASE k.kw = "type" ->
                      IF is_type(instance, k.type) THEN <<>>
                      ELSE << PyStr(repr(instance) \o <<" is not of type ">>
                                                   \o <<"'", k.type, "'">>) >>
                 [] k.kw = "required" ->
                      IF instance.py # "obj" THEN <<>>
                      ELSE Concat([i \in 1..Len(k.names) |->
                               IF k.names[i] \in DOMAIN instance.fields THEN <<>>
                               ELSE << PyStr(<<"'", k.names[i], "'",
                                               " is a required property">>) >>])
                 [] k.kw = "properties" ->
                      IF instance.py # "obj" THEN <<>>
                      ELSE Concat([i \in 1..Len(k.props) |->
                               IF k.props[i].name \in DOMAIN instance.fields
                               THEN iter_errors(instance.fields[k.props[i].name],
                                                k.props[i].schema)
                               ELSE <<>>])
         IN here \o iter_errors(instance, Tail(schema))

Orderings(s) ==
    {[i \in 1..Len(s) |-> s[f[i]]] :
        f \in {g \in [1..Len(s) -> 1..Len(s)] : \A i, j \in 1..Len(s) : g[i] = g[j] => i = j}}

\* validate_json_body(body, schema): sorted() of the errors compares ValidationError
\* objects, which define no order: two or more of them raise TypeError, or come in
\* the interpreter's arbitrary order where it orders any two objects
Sorted(errors) ==
    IF Len(errors) <= 1
    THEN {[exc |-> "none", status |-> ResponseOrNone(errors)]}
    ELSE {[exc |-> "TypeError", status |-> None]}
             \cup {[exc |-> "none", status |-> PyList(e)] : e \in Orderings(errors)}

validate_json_body(body, schema) == Sorted(iter_errors(body, schema))

(***************************************************************************)
(* DefaultManager.get_one and request_validator                            *)
(***************************************************************************)
\* a query that does not look at isActive
MatchesAnyState(doc, query) ==
    \A key \in DOMAIN query \ {"isActive"} : doc[key] = query[key]

\* a document matches a query of equalities
Matches(doc, query) == \A key \in DOMAIN query : doc[key] = query[key]

\* RequestValidationConfig.objects.get_one(queries=...): the first matching document
get_one(collection, queries) ==
    IF \E i \in 1..Len(collection) : Matches(collection[i], queries)
    THEN collection[CHOOSE i \in 1..Len(collection) :
                        /\ Matches(collection[i], queries)
                        /\ \A j \in 1..(i - 1) : ~Matches(collection[j], queries)]
    ELSE None

NoRun == [exc |-> "none", status |-> None, iterations |-> <<>>]

\* the errors map: the keys whose status is truthy
ErrorsMap(q, u, b) ==
    LET keys == {k \in {"queryParams", "urlParams", "requestBody"} :
                    CASE k = "queryParams" -> Truthy(q)
                      [] k = "urlParams" -> Truthy(u)
                      [] k = "requestBody" -> Truthy(b)}
    IN [k \in keys |-> CASE k = "queryParams" -> q.items
                         [] k = "urlParams" -> u.items
                         [] k = "requestBody" -> b.items]

\* what request_validator did with the body: the step it reached, the exception of
\* validate_json_body if any, and the errors of the requestBody bucket
BodyStep(step, exc, b) ==
    [step |-> step, exc |-> exc, errors |-> IF Truthy(b) THEN b.items ELSE <<>>]

Ended(outcome_, q, u, b, iterations, found, body) ==
    [outcome |-> outcome_, response |-> ErrorsMap(q, u, b), log |-> iterations,
     found |-> found, body |-> body]

\* "if response: raise BadRequest(errors=response)" and "return True"
Finish(q, u, b, step) ==
    Ended(IF Truthy(q.status) \/ Truthy(u.status) \/ Truthy(b)
          THEN "BadRequest" ELSE "True",
          q.status, u.status, b, q.iterations \o u.iterations, TRUE,
          BodyStep(step, "none", b))

\* the else branch of the try: validate_json_body, then the rest
AfterSchema(q, u, b) ==
    IF b.exc # "none"
    THEN Ended(b.exc, q.status, u.status, None, q.iterations \o u.iterations,
               TRUE, BodyStep("validated", b.exc, None))
    ELSE Finish(q, u, b.status, "validated")

\* "if request_body_schema:" with the body decoded (or not)
AfterDecode(q, u, data, schema) ==
    IF data.exc # "none"
    THEN {Finish(q, u, PyList(<< [message |-> <<"Invalid request body.">>] >>),
                 "undecodable")}
    ELSE {AfterSchema(q, u, b) : b \in validate_json_body(data.val, schema.schema)}

\* "if url_param_schema:" done, the body next
AfterUrl(request_info, request_config, q, u) ==
    IF u.exc # "none"
    THEN {Ended(u.exc, q.status, None, None, q.iterations \o u.iterations,
                TRUE, BodyStep("skipped", "none", None))}
    ELSE IF ~Truthy(request_config.requestBodySchema)
    THEN {Finish(q, u, None, "skipped")}
    ELSE AfterDecode(q, u, json_loads_decode(request_info.request_body),
                     request_config.requestBodySchema)

\* "if query_param_schema:" done, the URL parameters next
AfterQuery(request_info, request_config, q) ==
    IF q.exc # "none"
    THEN {Ended(q.exc, None, None, None, q.iterations, TRUE,
                BodyStep("skipped", "none", None))}
    ELSE AfterUrl(request_info, request_config, q,
                  IF request_config.urlParams # <<>>
                  THEN validate_params(request_config.urlParams, request_info,
                                       "urlParams")
                  ELSE NoRun)

\* "if request_config:"
WithConfig(request_info, request_config) ==
    IF request_config = None
    THEN {Ended("True", None, None, None, <<>>, FALSE,
                BodyStep("skipped", "none", None))}
    ELSE AfterQuery(request_info, request_config,
                    IF request_config.queryParams # <<>>
                    THEN validate_params(request_config.queryParams, request_info,
                                         "queryParams")
                    ELSE NoRun)

\* the ways request_validator(request_info) can end
request_validator(request_info, collection) ==
    WithConfig(request_info,
               get_one(collection, [routeName |-> request_info.route_name,
                                    isActive |-> TRUE,
                                    method |-> request_info.method]))

(***************************************************************************)
(* HttpError and its subclasses                                            *)
(***************************************************************************)
\* HttpError.__init__ testing its arguments for truth, not for None
HttpErrorTruthy(status_code, message, error_code, errors) ==
    LET error ==
          CASE Truthy(error_code) /\ errors # None /\ errors # [py |-> "dict"] ->
                   [message |-> message, code |-> error_code, errors |-> errors]
            [] Truthy(error_code) ->
                   [message |-> message, code |-> error_code]
            [] errors # None /\ errors # [py |-> "dict"] ->
                   [message |-> message, errors |-> errors]
            [] OTHER -> [message |-> message]
    IN [status |-> status_code,
        content |-> [statusCode |-> status_code, error |-> error]]

\* JsonResponse(response, status=status_code) of HttpError.__init__
HttpError(status_code, message, error_code, errors) ==
    LET error ==
          CASE error_code # None /\ errors # None ->
                   [message |-> message, code |-> error_code, errors |-> errors]
            [] error_code # None /\ errors = None ->
                   [message |-> message, code |-> error_code]
            [] error_code = None /\ errors # None ->
                   [message |-> message, errors |-> errors]
            [] OTHER -> [message |-> message]
    IN [status |-> status_code,
        content |-> [statusCode |-> status_code, error |-> error]]

BadRequestMessage == <<"The request is invalid. Please try again.">>
InternalServerErrorMessage ==
    <<"Looks like something went wrong! Please try again.\nIf the issue persists please contact support.">>
MethodNotAllowedMessage == <<"This method is not allowed for the sent request.">>
NotFoundMessage == <<"The resource you are looking for does not exist.">>

\* BadRequest(errors=response).response
BadRequest(errors) == HttpError(400, BadRequestMessage, None, errors)
\* InternalServerError built like the base class, whose default for errors is {}
InternalServerErrorWithErrors ==
    HttpError(500, InternalServerErrorMessage, None, [py |-> "dict"])

\* InternalServerError().response
InternalServerError == HttpError(500, InternalServerErrorMessage, None, None)
\* MethodNotAllowed().response (raise MethodNotAllowed)
MethodNotAllowed == HttpError(405, MethodNotAllowedMessage, None, None)
\* NotFound().response
NotFound == HttpError(404, NotFoundMessage, None, None)

(***************************************************************************)
(* The configuration store and the requests of the model                   *)
(***************************************************************************)
Config(routeName, method, isActive, queryParams, urlParams, requestBodySchema) ==
    [routeName |-> routeName, method |-> method, isActive |-> isActive,
     queryParams |-> queryParams, urlParams |-> urlParams,
     requestBodySchema |-> requestBodySchema]

Schema(keywords) == [py |-> "dict", schema |-> keywords]

UserSchema ==
    Schema(<< Type("object"),
              Required(<<"name">>),
              Properties(<< Property("name", <<Type("string")>>),
                            Property("age", <<Type("integer")>>) >>) >>)

BodySchemas == {None, UserSchema}

UrlSchemas ==
    { <<>>,
      << Doc(<<"id">>, "OBJECT_ID", None, TRUE, None, None) >>,
      << Doc(<<"id">>, "INTEGER", None, FALSE, Action("GREATER_THAN", PyInt(1)), None) >>,
      << Doc(<<"id">>, "OBJECT_ID", None, TRUE, None, None),
         Doc(<<"n">>, "INTEGER", None, TRUE,
             Action("BETWEEN", PyRange(PyInt(1), PyInt(10))), None) >>,
      << Doc(<<"id">>, "INTEGER", None, FALSE, Action("GREATER_THAN", PyInt(1)), None),
         Doc(<<"n">>, "INTEGER", None, TRUE, None, None) >> }

QuerySchemas ==
    { <<>>,
      << Doc(<<"q">>, "INTEGER", None, TRUE, None, None) >>,
      << Doc(<<"q">>, "FLOAT", None, FALSE, None, None),
         Doc(<<"s">>, "STRING", PyStr(<<"1+">>), TRUE, None, None) >>,
      << Doc(<<"s">>, "BOOLEAN", None, TRUE, Action("EQUALS", PyStr(<<"1">>)), None) >> }

RuleSets(active) ==
    {Config("getUser", "GET", active, q, u, b) :
        q \in QuerySchemas, u \in UrlSchemas, b \in BodySchemas}

\* the collection: nothing, one rule-set (active or not), or an inactive rule-set
\* before the active one
Stores ==
    {<<>>}
        \cup {<<c>> : c \in RuleSets(TRUE) \cup RuleSets(FALSE)}
        \cup {<< Config("getUser", "GET", FALSE, <<>>,
                        << Doc(<<"id">>, "INTEGER", None, TRUE, None, None) >>, None),
                 c >> : c \in RuleSets(TRUE)}

UrlParameters ==
    { <<>>,
      (<<"id">> :> PyStr(ValidOid)),
      (<<"id">> :> PyStr(<<"n", "o", "t", "-", "a", "n", "-", "i", "d">>)),
      (<<"id">> :> PyStr(<<"0">>)),
      (<<"id">> :> PyStr(ValidOid)) @@ (<<"n">> :> PyStr(<<"5">>)),
      (<<"id">> :> PyStr(ValidOid)) @@ (<<"n">> :> PyInt(11)),
      (<<"id">> :> PyInt(0)) }

QueryParameters ==
    { <<>>,
      (<<"q">> :> <<PyStr(<<"4", "2">>)>>),
      (<<"q">> :> <<PyStr(<<>>)>>),
      (<<"q">> :> <<PyStr(<<"4", ".", "2">>), PyStr(<<"7">>)>>)
          @@ (<<"s">> :> <<PyStr(<<"1", "1", "a">>)>>),
      (<<"s">> :> <<PyStr(<<"a">>), PyStr(<<"1">>)>>) }

\* request.body
Bodies ==
    { <<>>,
      <<JBad>>,
      <<JPunct("{")>>,
      <<JNull>>,
      <<JPunct("{"), JPunct("}")>>,
      <<JPunct("{"), JStr("name"), JPunct(":"), JStr("x"), JPunct("}")>>,
      <<JPunct("{"), JStr("name"), JPunct(":"), JNum(1), JPunct(","),
        JStr("age"), JPunct(":"), JStr("x"), JPunct("}")>> }

Routes == {<<"getUser", "GET">>, <<"getUser", "POST">>, <<"listUsers", "GET">>}

\* request_info of RequestValidationMiddleware.__call__
RequestInfo(route, url, query, body) ==
    [route_name |-> route[1],
     url_parameters |-> url,
     query_parameters |-> query,
     request_body |-> IF body # <<>> THEN Bytes(body) ELSE EmptyDict,
     method |-> route[2]]

NoRequest ==
    [route_name |-> "", url_parameters |-> <<>>, query_parameters |-> <<>>,
     request_body |-> EmptyDict, method |-> ""]

NoResponse == [status |-> 0, content |-> [statusCode |-> 0, error |-> [message |-> <<>>]]]

(***************************************************************************)
(* The middleware chain: HandleExceptionMiddleware around                  *)
(* RequestValidationMiddleware around the view                             *)
(***************************************************************************)
requestVars == <<request, outcome, response, log, ruleFound, bodyCheck, viewResult,
                 errorLog, httpResponse, handlerCalls, storeReads>>
validateVars == <<document, value, result>>
repeatVars == <<previous>>
errorVars == <<httpError>>
managerVars == <<documents, before, call, returned>>

\* no HttpError is under construction
NoHttpError ==
    [class |-> "", message |-> None, error_code |-> None, errors |-> None,
     response |-> NoResponse]

\* no DefaultManager method has been called
NoCall == [method |-> ""]
NotReturned == [exc |-> "pending", response |-> None]

\* the parts of the state the request pipeline does not use
NoManager ==
    /\ httpError = NoHttpError
    /\ documents = <<>>
    /\ before = <<>>
    /\ call = NoCall
    /\ returned = NotReturned

\* request_validator has not run for the request before
NoPrevious == [outcome |-> "none", response |-> <<>>]

Idle ==
    /\ pc = "idle"
    /\ request = NoRequest
    /\ outcome = "none"
    /\ response = <<>>
    /\ log = <<>>
    /\ ruleFound = FALSE
    /\ bodyCheck = BodyStep("none", "none", None)
    /\ viewResult = "none"
    /\ errorLog = <<>>
    /\ httpResponse = NoResponse
    /\ handlerCalls = 0
    /\ storeReads = 0

Init ==
    /\ store \in Stores
    /\ Idle
    /\ document = None
    /\ value = None
    /\ result = Pending
    /\ previous = NoPrevious
    /\ NoManager

\* RequestValidationMiddleware.__call__, up to the call of request_validator
ReceiveRequest ==
    /\ pc = "idle"
    /\ \E route \in Routes, url \in UrlParameters, query \in QueryParameters,
          body \in Bodies :
           request' = RequestInfo(route, url, query, body)
    /\ pc' = "validate"
    /\ UNCHANGED <<store, outcome, response, log, ruleFound, bodyCheck, viewResult,
                   errorLog, httpResponse, handlerCalls, storeReads, validateVars, repeatVars, errorVars, managerVars>>

\* request_validator(request_info) followed by get_response whatever it raised
RequestValidatorThenHandler ==
    /\ pc = "validate"
    /\ \E r \in request_validator(request, store) :
           /\ outcome' = r.outcome
           /\ response' = r.response
           /\ log' = r.log
           /\ ruleFound' = r.found
           /\ bodyCheck' = r.body
    /\ pc' = "handler"
    /\ storeReads' = storeReads + 1
    /\ UNCHANGED <<store, request, viewResult, errorLog, httpResponse, handlerCalls,
                   validateVars, repeatVars, errorVars, managerVars>>

\* request_validator(request_info) that drops the rule-set it read
RequestValidatorConsuming ==
    /\ pc = "validate"
    /\ \E r \in request_validator(request, store) :
           /\ outcome' = r.outcome
           /\ response' = r.response
           /\ log' = r.log
           /\ ruleFound' = r.found
           /\ bodyCheck' = r.body
           /\ pc' = IF r.outcome = "True" THEN "handler" ELSE "raised"
    /\ storeReads' = storeReads + 1
    /\ store' = <<>>
    /\ UNCHANGED <<request, viewResult, errorLog, httpResponse, handlerCalls,
                   validateVars, repeatVars, errorVars, managerVars>>

\* request_validator(request_info)
RequestValidator ==
    /\ pc = "validate"
    /\ \E r \in request_validator(request, store) :
           /\ outcome' = r.outcome
           /\ response' = r.response
           /\ log' = r.log
           /\ ruleFound' = r.found
           /\ bodyCheck' = r.body
           /\ pc' = IF r.outcome = "True" THEN "handler" ELSE "raised"
    /\ storeReads' = storeReads + 1
    /\ UNCHANGED <<store, request, viewResult, errorLog, httpResponse, handlerCalls,
                   validateVars, repeatVars, errorVars, managerVars>>

ViewResults == {"HttpResponse", "dict", "HttpResponseNotAllowed", "NotFound", "Exception"}

\* response = self.get_response(request) of RequestValidationMiddleware.__call__
GetResponse ==
    /\ pc = "handler"
    /\ viewResult' \in ViewResults
    /\ handlerCalls' = handlerCalls + 1
    /\ pc' = "returned"
    /\ UNCHANGED <<store, request, outcome, response, log, ruleFound, bodyCheck,
                   errorLog, httpResponse, storeReads, validateVars, repeatVars, errorVars, managerVars>>

ViewResponse == [status |-> 200, content |-> [body |-> "view"]]

\* str(uuid4()): one of the identifiers of the model
Uuids == {"uuid-a", "uuid-b"}

\* the line written to error_logger: the request id and the traceback
LogEntry(request_id, exception) == [uuid |-> request_id, traceback |-> exception]

\* HandleExceptionMiddleware.__call__, once the inner chain returned or raised
HandleException ==
    /\ pc \in {"raised", "returned"}
    /\ LET raised ==
             CASE pc = "raised" -> outcome
               [] viewResult = "HttpResponseNotAllowed" -> "MethodNotAllowed"
               [] viewResult \in {"NotFound", "Exception"} -> viewResult
               [] OTHER -> "none"
       IN /\ httpResponse' =
                CASE raised = "none" -> ViewResponse
                  [] raised = "BadRequest" -> BadRequest(response)
                  [] raised = "MethodNotAllowed" -> MethodNotAllowed
                  [] raised = "NotFound" -> NotFound
                  [] OTHER -> InternalServerError
          /\ IF raised \in {"none", "BadRequest", "MethodNotAllowed", "NotFound"}
             THEN errorLog' = errorLog
             ELSE \E request_id \in Uuids :
                      errorLog' = Append(errorLog, LogEntry(request_id, raised))
    /\ pc' = "done"
    /\ UNCHANGED <<store, request, outcome, response, log, ruleFound, bodyCheck,
                   viewResult, handlerCalls, storeReads, validateVars, repeatVars, errorVars, managerVars>>

\* the next request arrives: nothing of the last one is kept
NextRequest ==
    /\ pc = "done"
    /\ pc' = "idle"
    /\ request' = NoRequest
    /\ outcome' = "none"
    /\ response' = <<>>
    /\ log' = <<>>
    /\ ruleFound' = FALSE
    /\ bodyCheck' = BodyStep("none", "none", None)
    /\ viewResult' = "none"
    /\ errorLog' = <<>>
    /\ httpResponse' = NoResponse
    /\ handlerCalls' = 0
    /\ storeReads' = 0
    /\ UNCHANGED <<store, validateVars, repeatVars, errorVars, managerVars>>

Next == ReceiveRequest \/ RequestValidator \/ GetResponse \/ HandleException \/ NextRequest

Spec == Init /\ [][Next]_vars

(***************************************************************************)
(* The same request validated a second time, the store unchanged           *)
(***************************************************************************)
\* request_validator(request_info) is about to run again for the same request
ValidateAgain ==
    /\ pc \in {"handler", "raised"}
    /\ previous = NoPrevious
    /\ previous' = [outcome |-> outcome, response |-> response]
    /\ pc' = "validate"
    /\ outcome' = "none"
    /\ response' = <<>>
    /\ log' = <<>>
    /\ ruleFound' = FALSE
    /\ bodyCheck' = BodyStep("none", "none", None)
    /\ UNCHANGED <<store, request, viewResult, errorLog, httpResponse, handlerCalls,
                   storeReads, validateVars, errorVars, managerVars>>

NextRepeat == ReceiveRequest \/ RequestValidator \/ ValidateAgain

SpecRepeat == Init /\ [][NextRepeat]_vars

(***************************************************************************)
(* ValidateParamType on its own: any rule against any raw value            *)
(***************************************************************************)
InitValidate ==
    /\ store = <<>>
    /\ Idle
    /\ document \in ParamDocs
    /\ value \in ParamValues
    /\ result = Pending
    /\ previous = NoPrevious
    /\ NoManager

\* ValidateParamType(document, value).validate()
Validate ==
    /\ result = Pending
    /\ Truthy(value)
    /\ result' = validate(document, value)
    /\ UNCHANGED <<store, pc, requestVars, document, value, repeatVars, errorVars,
                   managerVars>>

NextValidate == Validate

SpecValidate == InitValidate /\ [][NextValidate]_vars

(***************************************************************************)
(* The HttpError classes: any class constructed with any arguments         *)
(***************************************************************************)
ErrorClasses ==
    {"BadRequest", "Unauthorized", "PaymentRequired", "Forbidden", "NotFound",
     "MethodNotAllowed", "Conflict", "UnsupportedMediaType", "Locked",
     "InternalServerError", "NotImplemented"}

\* the class attribute status_code
status_code(class) ==
    CASE class = "BadRequest" -> 400
      [] class = "Unauthorized" -> 401
      [] class = "PaymentRequired" -> 402
      [] class = "Forbidden" -> 403
      [] class = "NotFound" -> 404
      [] class = "MethodNotAllowed" -> 405
      [] class = "Conflict" -> 409
      [] class = "UnsupportedMediaType" -> 415
      [] class = "Locked" -> 423
      [] class = "InternalServerError" -> 500
      [] class = "NotImplemented" -> 501

\* the default of the parameter message of __init__
DefaultMessage(class) ==
    CASE class = "BadRequest" -> BadRequestMessage
      [] class = "Unauthorized" -> <<"Sent request is unauthorized. Please log in first.">>
      [] class = "PaymentRequired" ->
             <<"Please confirm your purchase first. Payment is required to access this resource">>
      [] class = "Forbidden" ->
             <<"You don't have necessary permissions to access this resource.">>
      [] class = "NotFound" -> NotFoundMessage
      [] class = "MethodNotAllowed" -> MethodNotAllowedMessage
      [] class = "Conflict" -> <<"The request seems to be conflicting.">>
      [] class = "UnsupportedMediaType" -> <<"The sent filetype(s) not supported.">>
      [] class = "Locked" ->
             <<"This resource is currently locked! Please try again later.">>
      [] class = "InternalServerError" -> InternalServerErrorMessage
      [] class = "NotImplemented" ->
             <<"This action for sent request is yet to be implemented.">>

\* an argument left out of the call
NotPassed == [py |-> "missing"]

\* the value of a parameter whose default is None
OrNone(argument) == IF argument = NotPassed THEN None ELSE argument

\* class(message=..., error_code=..., errors=...).response
Construct(class, message, error_code, errors) ==
    HttpError(status_code(class),
              IF message = NotPassed THEN DefaultMessage(class) ELSE message.s,
              OrNone(error_code), OrNone(errors))

Messages == {NotPassed, PyStr(<<"custom">>)}
ErrorCodes == {NotPassed, None, PyInt(0), PyStr(<<"E42">>)}
ErrorDetails == {NotPassed, None, EmptyDict, [field |-> <<"is wrong">>]}

InitHttpError ==
    /\ store = <<>>
    /\ Idle
    /\ document = None
    /\ value = None
    /\ result = Pending
    /\ previous = NoPrevious
    /\ httpError \in {[class |-> c, message |-> m, error_code |-> e, errors |-> d,
                        response |-> NoResponse] :
                           c \in ErrorClasses, m \in Messages, e \in ErrorCodes,
                           d \in ErrorDetails}
    /\ documents = <<>>
    /\ before = <<>>
    /\ call = NoCall
    /\ returned = NotReturned

\* the constructor of the class runs
RaiseHttpError ==
    /\ httpError.response = NoResponse
    /\ httpError' = [httpError EXCEPT
                         !.response = Construct(httpError.class, httpError.message,
                                                httpError.error_code, httpError.errors)]
    /\ UNCHANGED <<store, pc, requestVars, validateVars, repeatVars, managerVars>>

NextHttpError == RaiseHttpError

SpecHttpError == InitHttpError /\ [][NextHttpError]_vars

(***************************************************************************)
(* DefaultManager over a collection of documents                           *)
(***************************************************************************)
MaxDocs == 3

\* a dict used as a raw query: its items in order
Query(pairs) == [py |-> "query", pairs |-> pairs]
Item(key, v) == [key |-> key, value |-> v]
ObjectId(n) == [py |-> "ObjectId", id |-> n]

\* a document of the collection
Document(id, name, n) == [_id |-> ObjectId(id), name |-> name, n |-> n]

\* {"$and": filters}
And(filters) == Query(<<Item("$and", filters)>>)

\* a document matches a raw query: every item holds, $and over its list
RECURSIVE MatchesRaw(_, _)
MatchesRaw(doc, query) ==
    \A i \in 1..Len(query.pairs) :
        LET item == query.pairs[i]
        IN IF item.key = "$and"
           THEN \A j \in 1..Len(item.value.items) : MatchesRaw(doc, item.value.items[j])
           ELSE doc[item.key] = item.value

\* self.model.objects.raw(query): the matching documents in their natural order
raw(docs, query) == SelectSeq(docs, LAMBDA doc : MatchesRaw(doc, query))

\* QuerySet.first(): the first document, or DoesNotExist
first(queryset) ==
    IF queryset = <<>> THEN [exc |-> "DoesNotExist", val |-> None]
    ELSE [exc |-> "none", val |-> queryset[1]]

\* "query = {}; if queries: ... elif filters: ..."
QueryOf(queries, filters) ==
    IF Truthy(queries) THEN queries
    ELSE IF Truthy(filters) THEN And(filters)
    ELSE Query(<<>>)

\* the same with "if filters:" in place of "elif filters:"
QueryOfRemove(queries, filters) ==
    IF Truthy(filters) THEN And(filters)
    ELSE IF Truthy(queries) THEN queries
    ELSE Query(<<>>)

\* what a manager method did: its exception, its return value, the collection after
Done(exc, resp, docs) == [exc |-> exc, response |-> resp, documents |-> docs]

\* resources.skip(offset) and resources.limit(limit)
Skip(queryset, offset) ==
    IF Truthy(offset) THEN SubSeq(queryset, offset.n + 1, Len(queryset)) ELSE queryset
Limit(queryset, limit) ==
    IF Truthy(limit) /\ limit.n < Len(queryset) THEN SubSeq(queryset, 1, limit.n)
    ELSE queryset

\* get_all(filters, queries, limit=limit, offset=offset)
DefaultManager_get_all(docs, filters, queries, limit, offset) ==
    Done("none", PyList(Limit(Skip(raw(docs, QueryOf(queries, filters)), offset), limit)),
         docs)

\* get_by_id(_id)
DefaultManager_get_by_id(docs, id) ==
    Done("none", first(raw(docs, Query(<<Item("_id", id)>>))).val, docs)

\* get_one(queries, filters)
DefaultManager_get_one(docs, queries, filters) ==
    Done("none", first(raw(docs, QueryOf(queries, filters))).val, docs)

\* the items of a query that fix a field, those under $and included
RECURSIVE EqualityItems(_)
RECURSIVE ClauseItems(_, _)
EqualityItems(query) ==
    Concat([i \in 1..Len(query.pairs) |->
               IF query.pairs[i].key = "$and"
               THEN ClauseItems(query.pairs[i].value.items, 1)
               ELSE <<query.pairs[i]>>])
ClauseItems(clauses, j) ==
    IF j > Len(clauses) THEN <<>>
    ELSE EqualityItems(clauses[j]) \o ClauseItems(clauses, j + 1)

\* the value the items give to a field: the last one, or the default
FieldOf(items, field, default) ==
    IF \E i \in 1..Len(items) : items[i].key = field
    THEN items[CHOOSE i \in 1..Len(items) :
                   /\ items[i].key = field
                   /\ \A j \in (i + 1)..Len(items) : items[j].key # field].value
    ELSE default

\* {"$set": data} applied to a document
Apply(doc, data) == [field \in DOMAIN doc |-> FieldOf(data.pairs, field, doc[field])]

\* an ObjectId no document of the collection has
FreshId(docs) ==
    ObjectId(CHOOSE n \in 1..(Len(docs) + 1) :
                 /\ \A i \in 1..Len(docs) : docs[i]._id.id # n
                 /\ \A m \in 1..(n - 1) : \E i \in 1..Len(docs) : docs[i]._id.id = m)

\* the document an upsert inserts: the fields the query fixes, then the update
Upserted(docs, query, data) ==
    Apply([_id |-> FieldOf(EqualityItems(query), "_id", FreshId(docs)),
           name |-> FieldOf(EqualityItems(query), "name", None),
           n |-> FieldOf(EqualityItems(query), "n", None)], data)

\* the collection after QuerySet.update(data, upsert=upsert): every matching document
\* is updated; without a match an upsert inserts one
Updated(docs, query, data, upsert) ==
    IF raw(docs, query) = <<>> /\ upsert
    THEN Append(docs, Upserted(docs, query, data))
    ELSE [i \in 1..Len(docs) |->
             IF MatchesRaw(docs[i], query) THEN Apply(docs[i], data) ELSE docs[i]]

\* the modified count QuerySet.update returns
ModifiedCount(docs, query, data) ==
    Cardinality({i \in 1..Len(docs) :
                    MatchesRaw(docs[i], query) /\ Apply(docs[i], data) # docs[i]})

\* ReturnDocument.BEFORE is False, ReturnDocument.AFTER is True
BEFORE == [py |-> "bool", b |-> FALSE]
AFTER == [py |-> "bool", b |-> TRUE]

\* "if return_document:" on None, BEFORE and AFTER
IsTrue(return_document) == return_document = AFTER

\* the queryset of update_by_id and update_one read before or after the update
ReturnedDocument(docs, after, query, return_document) ==
    CASE return_document = BEFORE -> first(raw(docs, query)).val
      [] return_document = AFTER -> first(raw(after, query)).val
      [] OTHER -> None

\* update_by_id(_id, data, upsert=upsert, return_document=return_document)
DefaultManager_update_by_id(docs, id, data, upsert, return_document) ==
    Done("none",
         IF IsTrue(return_document)
         THEN ReturnedDocument(docs, Updated(docs, Query(<<Item("_id", id)>>), data, upsert),
                               Query(<<Item("_id", id)>>), return_document)
         ELSE PyInt(ModifiedCount(docs, Query(<<Item("_id", id)>>), data)),
         Updated(docs, Query(<<Item("_id", id)>>), data, upsert))

\* "id_doc = self.model.objects.raw(query).first()._qs.raw_query"
IdDoc(docs, query) ==
    IF raw(docs, query) = <<>> THEN None
    ELSE Query(<<Item("_id", raw(docs, query)[1]._id)>>)

HasAnd(query) == \E i \in 1..Len(query.pairs) : query.pairs[i].key = "$and"

\* "query_list = [id_doc] + [{key: value} for key, value in query.iteritems()]"
Narrowed(id_doc, query) ==
    And(PyList(<<id_doc>> \o [i \in 1..Len(query.pairs) |-> Query(<<query.pairs[i]>>)]))

\* update_one from "queryset = self.model.objects.raw(query)" on
UpdateOneFrom(docs, query, return_document_query, data, upsert, return_document) ==
    Done("none",
         IF return_document # None
         THEN ReturnedDocument(docs, Updated(docs, query, data, upsert),
                               return_document_query, return_document)
         ELSE PyInt(ModifiedCount(docs, query, data)),
         Updated(docs, query, data, upsert))

\* update_one with the query built: the ways it can end. dict.iteritems exists on
\* Python 2 only; on Python 3 the call raises AttributeError.
UpdateOneWith(docs, query, id_doc, data, upsert, return_document) ==
    IF id_doc # None
    THEN IF HasAnd(query)
         THEN {UpdateOneFrom(docs, query, id_doc, data, upsert, return_document)}
         ELSE {Done("AttributeError", None, docs),
               UpdateOneFrom(docs, Narrowed(id_doc, query), id_doc, data, upsert,
                             return_document)}
    ELSE IF ~upsert
    THEN {Done("none", IF return_document = None THEN PyInt(0) ELSE None, docs)}
    ELSE {UpdateOneFrom(docs, query, query, data, upsert, return_document)}

\* update_one(data, filters, upsert=upsert, queries=queries,
\*            return_document=return_document)
DefaultManager_update_one(docs, data, filters, upsert, queries, return_document) ==
    UpdateOneWith(docs, QueryOf(queries, filters),
                  IdDoc(docs, QueryOf(queries, filters)), data, upsert, return_document)

\* update_many(data, filters, queries, upsert)
DefaultManager_update_many(docs, data, filters, queries, upsert) ==
    Done("none", PyInt(ModifiedCount(docs, QueryOf(queries, filters), data)),
         Updated(docs, QueryOf(queries, filters), data, upsert))

\* remove(filters, queries): queryset.delete() returns the number deleted
DefaultManager_remove(docs, filters, queries) ==
    Done("none", PyInt(Len(raw(docs, QueryOfRemove(queries, filters)))),
         SelectSeq(docs, LAMBDA doc : ~MatchesRaw(doc, QueryOfRemove(queries, filters))))

\* remove_one(queries)
DefaultManager_remove_one(docs, queries) ==
    IF raw(docs, QueryOf(queries, None)) = <<>>
    THEN Done("none", PyInt(0), docs)
    ELSE Done("none", PyInt(1),
              SelectSeq(docs, LAMBDA doc : doc # raw(docs, QueryOf(queries, None))[1]))

\* insert_one(data): the saved document
DefaultManager_insert_one(docs, data) ==
    Done("none", Upserted(docs, Query(<<>>), data),
         Append(docs, Upserted(docs, Query(<<>>), data)))

\* insert_many(data): bulk_create returns the ids of the saved documents
RECURSIVE InsertAll(_, _, _)
InsertAll(docs, data, ids) ==
    IF data = <<>> THEN Done("none", PyList(ids), docs)
    ELSE InsertAll(Append(docs, Upserted(docs, Query(<<>>), Head(data))), Tail(data),
                   Append(ids, FreshId(docs)))

DefaultManager_insert_many(docs, data) == InsertAll(docs, data.items, <<>>)

\* the arguments of the model
Names == {PyStr(<<"a">>), PyStr(<<"b">>)}
Counts == {PyInt(0), PyInt(1)}

QueryArgs ==
    {None, Query(<<>>),
     Query(<<Item("name", PyStr(<<"a">>))>>),
     Query(<<Item("n", PyInt(1))>>),
     Query(<<Item("name", PyStr(<<"b">>)), Item("n", PyInt(0))>>)}

FilterArgs ==
    {None, PyList(<<>>),
     PyList(<<Query(<<Item("name", PyStr(<<"a">>))>>)>>),
     PyList(<<Query(<<Item("name", PyStr(<<"b">>))>>), Query(<<Item("n", PyInt(0))>>)>>),
     PyList(<<Query(<<Item("n", PyInt(0))>>)>>)}

DataArgs ==
    {Query(<<Item("n", PyInt(1))>>),
     Query(<<Item("name", PyStr(<<"b">>))>>),
     Query(<<Item("name", PyStr(<<"a">>)), Item("n", PyInt(0))>>)}

ReturnDocuments == {None, BEFORE, AFTER}
PageArgs == {None, PyInt(1)}

\* the collections with documents 1..k
RECURSIVE Collections(_)
Collections(k) ==
    IF k = 0 THEN {<<>>}
    ELSE {Append(docs, Document(k, name, n)) :
             docs \in Collections(k - 1), name \in Names, n \in Counts}

InitManager ==
    /\ store = <<>>
    /\ Idle
    /\ document = None
    /\ value = None
    /\ result = Pending
    /\ previous = NoPrevious
    /\ httpError = NoHttpError
    /\ \E k \in 0..MaxDocs : documents \in Collections(k)
    /\ before = <<>>
    /\ call = NoCall
    /\ returned = NotReturned

\* a method of the manager was called and ended as r says
Return(called, r) ==
    /\ call' = called
    /\ before' = documents
    /\ returned' = [exc |-> r.exc, response |-> r.response]
    /\ documents' = r.documents
    /\ UNCHANGED <<store, pc, requestVars, validateVars, repeatVars, errorVars>>

GetAll ==
    /\ call = NoCall
    /\ \E filters \in FilterArgs, queries \in QueryArgs, limit \in PageArgs,
          offset \in PageArgs :
           Return([method |-> "get_all", filters |-> filters, queries |-> queries,
                   limit |-> limit, offset |-> offset],
                  DefaultManager_get_all(documents, filters, queries, limit, offset))

GetById ==
    /\ call = NoCall
    /\ \E id \in 1..MaxDocs :
           Return([method |-> "get_by_id", id |-> ObjectId(id)],
                  DefaultManager_get_by_id(documents, ObjectId(id)))

GetOne ==
    /\ call = NoCall
    /\ \E filters \in FilterArgs, queries \in QueryArgs :
           Return([method |-> "get_one", filters |-> filters, queries |-> queries],
                  DefaultManager_get_one(documents, queries, filters))

InsertOne ==
    /\ call = NoCall
    /\ Len(documents) < MaxDocs
    /\ \E data \in DataArgs :
           Return([method |-> "insert_one", data |-> data],
                  DefaultManager_insert_one(documents, data))

InsertMany ==
    /\ call = NoCall
    /\ Len(documents) + 2 <= MaxDocs
    /\ \E first_doc \in DataArgs, second_doc \in DataArgs :
           Return([method |-> "insert_many", data |-> PyList(<<first_doc, second_doc>>)],
                  DefaultManager_insert_many(documents, PyList(<<first_doc, second_doc>>)))

UpdateOne ==
    /\ call = NoCall
    /\ \E data \in DataArgs, filters \in FilterArgs, queries \in QueryArgs,
          upsert \in BOOLEAN, return_document \in ReturnDocuments :
           /\ upsert => Len(documents) < MaxDocs
           /\ \E r \in DefaultManager_update_one(documents, data, filters, upsert, queries,
                                                 return_document) :
                  Return([method |-> "update_one", data |-> data, filters |-> filters,
                          queries |-> queries, upsert |-> upsert,
                          return_document |-> return_document], r)

UpdateById ==
    /\ call = NoCall
    /\ \E id \in 1..MaxDocs, data \in DataArgs, upsert \in BOOLEAN,
          return_document \in ReturnDocuments :
           /\ upsert => Len(documents) < MaxDocs
           /\ Return([method |-> "update_by_id", id |-> ObjectId(id), data |-> data,
                      upsert |-> upsert, return_document |-> return_document],
                     DefaultManager_update_by_id(documents, ObjectId(id), data, upsert,
                                                 return_document))

UpdateMany ==
    /\ call = NoCall
    /\ \E data \in DataArgs, filters \in FilterArgs, queries \in QueryArgs,
          upsert \in BOOLEAN :
           /\ upsert => Len(documents) < MaxDocs
           /\ Return([method |-> "update_many", data |-> data, filters |-> filters,
                      queries |-> queries, upsert |-> upsert],
                     DefaultManager_update_many(documents, data, filters, queries, upsert))

Remove ==
    /\ call = NoCall
    /\ \E filters \in FilterArgs, queries \in QueryArgs :
           Return([method |-> "remove", filters |-> filters, queries |-> queries],
                  DefaultManager_remove(documents, filters, queries))

RemoveOne ==
    /\ call = NoCall
    /\ \E queries \in QueryArgs :
           Return([method |-> "remove_one", queries |-> queries],
                  DefaultManager_remove_one(documents, queries))

NextManager ==
    \/ GetAll \/ GetById \/ GetOne \/ InsertOne \/ InsertMany
    \/ UpdateOne \/ UpdateById \/ UpdateMany \/ Remove \/ RemoveOne

SpecManager == InitManager /\ [][NextManager]_vars

(***************************************************************************)
(* Properties of ValidateParamType (SpecValidate)                          *)
(***************************************************************************)
Validated == result # Pending
HasAction == Truthy(document.action)
ConstraintCalled ==
    \E i \in 1..Len(result.calls) : result.calls[i] = "__validate_param_constraint"

\* the error a value of the wrong type is reported with
TypeErrorOf(doc) ==
    CASE doc.dataType = "INTEGER" -> [message |-> doc.name \o <<" must be of integer type">>]
      [] doc.dataType = "FLOAT" -> [message |-> doc.name \o <<" must be of float type">>]
      [] doc.dataType = "OBJECT_ID" -> [message |-> doc.name \o <<" must be of type ObjectId">>]
      [] doc.dataType = "STRING" -> [message |-> doc.name \o <<" must be of string type">>]
      [] doc.dataType = "DATE" ->
             [message |-> doc.name \o <<" must be of date type with format ">>
                                   \o doc.format.s]

\* the value can be read as the declared type: it passes the type's check and the
\* conversion to the type succeeds
Coerces(doc, v) ==
    CASE doc.dataType = "INTEGER" ->
             isdigit(str(v)) /\ (v.py = "int" \/ int(str(v)).exc = "none")
      [] doc.dataType = "FLOAT" -> re_match(<<"^\\d+?\\.\\d+?$">>, str(v))
      [] doc.dataType = "OBJECT_ID" -> ObjectId_is_valid(str(v))
      [] doc.dataType = "STRING" -> v.py = "str"
      [] doc.dataType = "DATE" -> strptime(str(v), str(doc.format)).exc = "none"

\* C3: for a rule with a constraint, the constraint is evaluated only if the value
\* was accepted as the declared dataType; when type coercion fails, validate returns
\* exactly one type-error and no constraint error.
C3_TypeErrorShortCircuits ==
    (Validated /\ HasAction /\ document.dataType \in validation_types) =>
        /\ ConstraintCalled => Coerces(document, value)
        /\ ~Coerces(document, value) =>
               /\ result.exc = "none"
               /\ result.errors = <<TypeErrorOf(document)>>
               /\ ~ConstraintCalled

\* the typed value the constraint is given
CoercedValue(doc, v) ==
    CASE doc.dataType = "INTEGER" -> IF v.py = "int" THEN v ELSE int(v.s).val
      [] doc.dataType = "FLOAT" -> float(v.s)
      [] doc.dataType = "DATE" -> strptime(str(v), str(doc.format)).val
      [] OTHER -> v

\* C6: for every constraint kind and every coerced value the evaluator returns zero
\* or one error and never fails in another way: GREATER_THAN an error iff
\* value <= threshold, LESS_THAN iff value >= threshold, EQUALS iff value # expected,
\* IN iff value is no member, an unknown kind none.
C6_ConstraintZeroOrOneError ==
    (Validated /\ ConstraintCalled) =>
        LET kind == document.action.actionType
            p == document.action.value
            v == CoercedValue(document, value)
            failed == result.errors # <<>>
        IN /\ result.exc = "none"
           /\ Len(result.errors) <= 1
           /\ (kind = "GREATER_THAN" /\ Comparable(v, p)) => (failed <=> PyLe(v, p))
           /\ (kind = "LESS_THAN" /\ Comparable(v, p)) => (failed <=> PyLe(p, v))
           /\ kind = "EQUALS" => (failed <=> ~PyEq(v, p))
           /\ kind = "IN" => (failed <=> ~PyIn(v, p))
           /\ kind \notin {"BETWEEN", "EQUALS", "IN", "GREATER_THAN", "LESS_THAN"} => ~failed

\* min <= value <= max, spelled out for each type of value
InRange(doc, v, lo, hi) ==
    CASE doc.dataType = "INTEGER" ->
             LET n == IF v.py = "int" THEN v.n ELSE DecimalValue(v.s)
             IN lo.n <= n /\ n <= hi.n
      [] doc.dataType = "FLOAT" ->
             LET f == float(v.s)
             IN lo.n * Pow10(f.e) <= f.m /\ f.m <= hi.n * Pow10(f.e)
      [] doc.dataType = "DATE" ->
             LET y == strptime(str(v), str(doc.format)).val.year
             IN lo.year <= y /\ y <= hi.year
      [] OTHER -> ~StrLess(v.s, lo.s) /\ ~StrLess(hi.s, v.s)

\* the bounds of the model's ranges as str(bound) spells them
Rendered(x) ==
    CASE x = PyInt(1) -> <<"1">>
      [] x = PyInt(10) -> <<"1", "0">>
      [] x = PyDate(2001) -> <<"2", "0", "0", "1", "-01-01 00:00:00">>
      [] x = PyDate(2010) -> <<"2", "0", "1", "0", "-01-01 00:00:00">>
      [] x.py = "str" -> x.s

FullMatch(s) == Len(s) > 0 /\ \A i \in 1..Len(s) : s[i] = "1"

RegexError(doc) == [message |-> doc.name \o <<" must follow regex ">> \o doc.regex.s]

\* C8: a STRING value is accepted only if the whole value matches the configured
\* regex; on failure exactly one error "<name> must follow regex <regex>" is
\* produced and the constraint is not evaluated; on success the constraint, if any,
\* is evaluated.
C8_RegexFullMatch ==
    (Validated /\ document.dataType = "STRING" /\ Truthy(document.regex)
        /\ value.py = "str") =>
        IF FullMatch(value.s)
        THEN /\ \A i \in 1..Len(result.errors) : result.errors[i] # RegexError(document)
             /\ HasAction => ConstraintCalled
        ELSE /\ result.exc = "none"
             /\ result.errors = <<RegexError(document)>>
             /\ ~ConstraintCalled

\* digits '.' digits, at least one digit on each side
IsDecimalPoint(s) ==
    \E i \in 2..(Len(s) - 1) :
        /\ s[i] = "."
        /\ IsDecimal(SubSeq(s, 1, i - 1))
        /\ IsDecimal(SubSeq(s, i + 1, Len(s)))

\* C9: an INTEGER rule accepts a value iff it is a nonempty string of decimal digits,
\* a FLOAT rule iff it has the form digits '.' digits; a rejected value gets the
\* type error, an accepted one is passed to the constraint as the number it denotes.
C9_NumericAcceptance ==
    (Validated /\ value.py = "str" /\ document.dataType \in {"INTEGER", "FLOAT"}) =>
        LET wellFormed == IF document.dataType = "INTEGER" THEN IsDecimal(value.s)
                          ELSE IsDecimalPoint(value.s)
        IN IF wellFormed
           THEN /\ result.exc \in {"none", "TypeError"}
                /\ \A i \in 1..Len(result.errors) :
                       result.errors[i] # TypeErrorOf(document)
                /\ HasAction => ConstraintCalled
           ELSE /\ result.exc = "none"
                /\ result.errors = <<TypeErrorOf(document)>>

(***************************************************************************)
(* Properties of request_validator and the middleware chain (Spec)         *)
(***************************************************************************)
AfterValidation == pc \in {"handler", "raised", "returned", "done"}

\* the store holds an active rule-set for the request's route and method
ActiveRule ==
    \E i \in 1..Len(store) :
        /\ store[i].routeName = request.route_name
        /\ store[i].method = request.method
        /\ store[i].isActive

Buckets == {"queryParams", "urlParams", "requestBody"}

\* the iterations validate_params ran for one bucket
Entries(bucket) == SelectSeq(log, LAMBDA e : e.param_type = bucket)

\* the error list a validator produced; none if it raised
Produced(bucket) ==
    IF bucket = "requestBody" THEN bodyCheck.errors
    ELSE IF \E i \in 1..Len(log) : log[i].param_type = bucket /\ log[i].exc # "none"
    THEN <<>>
    ELSE Concat([i \in 1..Len(Entries(bucket)) |-> Entries(bucket)[i].errors])

\* C1: with an active rule-set, request_validator raises BadRequest iff at least one
\* of the three validators produced a nonempty error list; the errors map of the
\* BadRequest holds exactly the buckets whose list is nonempty; when all lists are
\* empty request_validator returns True without raising.
C1_BadRequestIffErrors ==
    (AfterValidation /\ ActiveRule) =>
        LET nonempty == {k \in Buckets : Produced(k) # <<>>}
        IN /\ outcome = "BadRequest" <=> nonempty # {}
           /\ outcome = "BadRequest" =>
                  /\ DOMAIN response = nonempty
                  /\ \A k \in nonempty : response[k] = Produced(k)
           /\ nonempty = {} => outcome = "True"

\* C2: without a rule matching {routeName, method, isActive: true}, request_validator
\* validates neither parameters nor body and returns True, whatever the URL
\* parameters, query parameters and body are; it never raises.
C2_NoRuleNoValidation ==
    (AfterValidation /\ ~ActiveRule) =>
        /\ outcome = "True"
        /\ pc # "raised"
        /\ log = <<>>
        /\ bodyCheck.step = "skipped"
        /\ DOMAIN response = {}

\* only an inactive rule-set exists, and the request would not satisfy it
C2_Witness ==
    /\ pc = "handler"
    /\ Len(store) = 1
    /\ ~store[1].isActive
    /\ store[1].routeName = request.route_name
    /\ store[1].method = request.method
    /\ store[1].urlParams # <<>>
    /\ store[1].urlParams[1].isRequired
    /\ request.url_parameters = <<>>
    /\ outcome = "True"

\* no value is supplied for the rule of a log entry: the URL capture or the query key
\* is absent, or the value is the empty string
NoValueSupplied(e) ==
    IF e.param_type = "urlParams"
    THEN \/ e.doc.name \notin DOMAIN request.url_parameters
         \/ request.url_parameters[e.doc.name] = PyStr(<<>>)
    ELSE \/ e.doc.name \notin DOMAIN request.query_parameters
         \/ request.query_parameters[e.doc.name][1] = PyStr(<<>>)

GetUserRule ==
    Config("getUser", "GET", TRUE, <<>>,
           << Doc(<<"id">>, "OBJECT_ID", None, TRUE, None, None) >>, None)

\* a GET of getUser with an id, answered
GetUserAnswered ==
    /\ pc = "done"
    /\ store = <<GetUserRule>>
    /\ request.route_name = "getUser"
    /\ request.method = "GET"
    /\ <<"id">> \in DOMAIN request.url_parameters
    /\ request.url_parameters[<<"id">>].py = "str"

Is24Hex(s) ==
    /\ Len(s) = Len(ValidOid)
    /\ \A i \in 1..Len(s) :
           s[i] \in {"0", "1", "2", "3", "4", "5", "6", "7", "8", "9",
                     "a", "b", "c", "d", "e", "f"}

\* C5: with the single active rule {getUser, GET, urlParams: [id OBJECT_ID required]},
\* a GET whose id is no valid 24-hex identifier is answered with status 400 and the
\* errors map {"urlParams": [{"message": "id must be of type ObjectId"}]}; one with
\* a valid 24-hex id passes validation without error and reaches the next handler.
C5_GetUserEndToEnd ==
    GetUserAnswered =>
        IF Is24Hex(request.url_parameters[<<"id">>].s)
        THEN /\ outcome = "True"
             /\ DOMAIN response = {}
             /\ handlerCalls = 1
        ELSE /\ handlerCalls = 0
             /\ httpResponse.status = 400
             /\ httpResponse.content =
                    [statusCode |-> 400,
                     error |-> [message |-> <<"The request is invalid. Please try again.">>,
                                errors |-> [k \in {"urlParams"} |->
                                    << [message |->
                                          <<"id", " must be of type ObjectId">>] >>]]]

\* the request with id "not-an-id" answered with status 400
C5_Witness ==
    /\ GetUserAnswered
    /\ request.url_parameters[<<"id">>].s = <<"n", "o", "t", "-", "a", "n", "-", "i", "d">>
    /\ httpResponse.status = 400

\* the active rule-set for the request has a body schema
ActiveRuleWithSchema ==
    \E i \in 1..Len(store) :
        /\ store[i].routeName = request.route_name
        /\ store[i].method = request.method
        /\ store[i].isActive
        /\ store[i].requestBodySchema # None

\* bodies that are no UTF-8 JSON: no body at all, bytes that are no UTF-8, an
\* unfinished object
Undecodable(body) ==
    \/ body = EmptyDict
    \/ body = Bytes(<<JBad>>)
    \/ body = Bytes(<<JPunct("{")>>)

\* an entry of the shape of a schema violation: a message string
IsMessageString(e) == "py" \in DOMAIN e /\ e.py = "str"

\* the text of an entry, whatever its shape
MessageOf(e) == IF "py" \in DOMAIN e THEN e.s ELSE e.message

\* C10: with a body schema in the active rule-set and a body that cannot be decoded
\* as UTF-8 JSON (an empty body included), once the parameter validators are through,
\* the requestBody bucket holds exactly one error, "Invalid request body.", the schema
\* is not evaluated and the request fails with BadRequest; every entry of a
\* requestBody bucket is a message string, as a schema violation entry is.
C10_UndecodableBody ==
    (AfterValidation /\ \A i \in 1..Len(log) : log[i].exc = "none") =>
        /\ (ActiveRuleWithSchema /\ Undecodable(request.request_body)) =>
               /\ Len(bodyCheck.errors) = 1
               /\ MessageOf(bodyCheck.errors[1]) = <<"Invalid request body.">>
               /\ bodyCheck.step = "undecodable"
               /\ outcome = "BadRequest"
        /\ \A i \in 1..Len(bodyCheck.errors) : IsMessageString(bodyCheck.errors[i])

\* the rule-set request_validator works with: the first active one for the route
\* and method of the request
ActiveConfig ==
    store[CHOOSE i \in 1..Len(store) :
              /\ store[i].routeName = request.route_name
              /\ store[i].method = request.method
              /\ store[i].isActive
              /\ \A j \in 1..(i - 1) :
                     ~(/\ store[j].routeName = request.route_name
                       /\ store[j].method = request.method
                       /\ store[j].isActive)]

\* the rules of a bucket of parameters
RulesOf(bucket) ==
    IF bucket = "queryParams" THEN ActiveConfig.queryParams ELSE ActiveConfig.urlParams

\* validate_params was called for the bucket: the URL parameters come after the
\* query parameters
ParamsCalled(bucket) ==
    /\ RulesOf(bucket) # <<>>
    /\ bucket = "urlParams" =>
           \A i \in 1..Len(log) : log[i].param_type = "queryParams" => log[i].exc = "none"

\* the first value sent under the name of a query parameter, if any
FirstValue(name) ==
    IF name \in DOMAIN request.query_parameters
    THEN request.query_parameters[name][1]
    ELSE PyStr(<<>>)

\* C11: validate_params returns None when no rule yields an error; otherwise it
\* returns the errors of all rules, in the order of the rule list (it does not stop at
\* the first failing rule); of a query parameter only the first value under the key
\* is validated.
C11_AllRulesInOrder ==
    (AfterValidation /\ ActiveRule) =>
        \A bucket \in {"queryParams", "urlParams"} :
            ParamsCalled(bucket) =>
                LET rules == RulesOf(bucket)
                    ran == Entries(bucket)
                    all == Concat([i \in 1..Len(ran) |-> ran[i].errors])
                IN /\ Len(ran) = Len(rules)
                   /\ \A i \in 1..Len(ran) :
                          /\ ran[i].doc = rules[i]
                          /\ ran[i].exc = "none"
                          /\ bucket = "queryParams" =>
                                 ran[i].value = FirstValue(rules[i].name)
                   /\ IF all = <<>>
                      THEN bucket \notin DOMAIN response
                      ELSE bucket \in DOMAIN response /\ response[bucket] = all

KnownTypes == {"STRING", "INTEGER", "FLOAT", "OBJECT_ID", "DATE"}

\* C17: a rule whose dataType is none of STRING, INTEGER, FLOAT, OBJECT_ID, DATE and
\* for which a value is supplied yields exactly one error "<name> has unknown data
\* type: <type>", neither a type check nor the constraint is evaluated, and the
\* request fails with BadRequest.
C17_UnknownDataType ==
    AfterValidation =>
        \A i \in 1..Len(log) :
            (log[i].doc.dataType \notin KnownTypes /\ ~NoValueSupplied(log[i])) =>
                /\ log[i].errors =
                       << [message |-> log[i].doc.name \o <<" has unknown data type: ">>
                                           \o <<log[i].doc.dataType>>] >>
                /\ log[i].calls = <<>>
                /\ outcome = "BadRequest"

Unexpected ==
    \/ outcome \in {"TypeError", "ValueError"}
    \/ outcome = "True" /\ viewResult = "Exception"

\* C14: an exception that is no HttpError is not re-raised: the answer is the
\* status-500 envelope with the default message, the same for every such exception,
\* and exactly one error-log entry with a generated request id is written; for an
\* HttpError the exception's own response is returned with its status code and
\* nothing is logged.
C14_UnexpectedExceptionIs500 ==
    pc = "done" =>
        /\ Unexpected =>
               /\ httpResponse =
                      [status |-> 500,
                       content |->
                           [statusCode |-> 500,
                            error |-> [message |->
                                <<"Looks like something went wrong! Please try again.\nIf the issue persists please contact support.">>]]]
               /\ Len(errorLog) = 1
               /\ errorLog[1].uuid \in Uuids
        /\ outcome = "BadRequest" =>
               /\ httpResponse.status = 400
               /\ httpResponse.content.statusCode = 400
               /\ httpResponse.content.error.errors = response
               /\ errorLog = <<>>
        /\ (outcome = "True" /\ viewResult = "NotFound") =>
               /\ httpResponse.status = 404
               /\ httpResponse.content.statusCode = 404
               /\ errorLog = <<>>
        /\ (outcome = "True" /\ viewResult = "HttpResponseNotAllowed") =>
               /\ httpResponse.status = 405
               /\ httpResponse.content.statusCode = 405
               /\ errorLog = <<>>

\* a TypeError of the validator answered with status 500 and logged
C14_Witness ==
    /\ pc = "done"
    /\ outcome = "TypeError"
    /\ httpResponse.status = 500
    /\ Len(errorLog) = 1
    /\ errorLog[1].traceback = "TypeError"

\* C18: get_response is invoked at most once per request and only after
\* request_validator returned without raising; it is never invoked when validation
\* raised BadRequest; when validation passes, the handler gets the request as it came
\* in and its response is what the middleware returns.
C18_HandlerOnlyAfterValidation ==
    [][/\ handlerCalls' <= 1
       /\ handlerCalls' = 1 => (outcome' = "True" /\ storeReads' = 1)
       /\ outcome' \notin {"none", "True"} => handlerCalls' = 0
       /\ pc' = "returned" => (handlerCalls' = 1 /\ viewResult' \in ViewResults)
       /\ pc \in {"validate", "handler", "returned", "raised"} => request' = request
       /\ pc = "returned" => viewResult' = viewResult]_vars

\* validation passed and the handler ran once
C18_Witness ==
    /\ pc = "returned"
    /\ outcome = "True"
    /\ ActiveRule
    /\ handlerCalls = 1

\* C12: request_validator run twice on the same request with the store unchanged
\* ends the same way both times: both pass, or both raise BadRequest with the same
\* errors map, the order of the entries of each bucket included.
C12_Deterministic ==
    (previous # NoPrevious /\ pc \in {"handler", "raised"}) =>
        /\ outcome = previous.outcome
        /\ outcome \in {"True", "BadRequest"}
        /\ DOMAIN response = DOMAIN previous.response
        /\ \A bucket \in DOMAIN response : response[bucket] = previous.response[bucket]

\* the status codes of the error classes
ClassStatus ==
    [BadRequest |-> 400, Unauthorized |-> 401, PaymentRequired |-> 402,
     Forbidden |-> 403, NotFound |-> 404, MethodNotAllowed |-> 405, Conflict |-> 409,
     UnsupportedMediaType |-> 415, Locked |-> 423, InternalServerError |-> 500,
     NotImplemented |-> 501]

\* an argument was given and is not None
Given(argument) == argument # NotPassed /\ argument # None

\* C15: every HTTP error class builds the same envelope: statusCode is the status
\* code of the class and the HTTP status of the response, error.message is the fixed
\* default of the class unless a message is passed, error.code is present iff an
\* error_code other than None was given, error.errors iff errors other than None
\* were given.
C15_SameEnvelope ==
    httpError.response # NoResponse =>
        LET r == httpError.response
            error == r.content.error
        IN /\ r.status = ClassStatus[httpError.class]
           /\ DOMAIN r.content = {"statusCode", "error"}
           /\ r.content.statusCode = r.status
           /\ error.message = IF httpError.message = NotPassed
                              THEN DefaultMessage(httpError.class)
                              ELSE httpError.message.s
           /\ DOMAIN error \subseteq {"message", "code", "errors"}
           /\ "code" \in DOMAIN error <=> Given(httpError.error_code)
           /\ "code" \in DOMAIN error => error.code = httpError.error_code
           /\ "errors" \in DOMAIN error <=> Given(httpError.errors)
           /\ "errors" \in DOMAIN error => error.errors = httpError.errors

\* Locked built with the error code 0 and an empty errors dict: both are present
C15_Witness ==
    /\ httpError.class = "Locked"
    /\ httpError.error_code = PyInt(0)
    /\ httpError.errors = EmptyDict
    /\ httpError.response.status = 423
    /\ DOMAIN httpError.response.content.error = {"message", "code", "errors"}

\* the document of a collection with the given _id, or None
WithId(docs, id) ==
    IF \E i \in 1..Len(docs) : docs[i]._id = id
    THEN docs[CHOOSE i \in 1..Len(docs) : docs[i]._id = id]
    ELSE None

\* the query a call selects with, as queries and filters are documented: the queries
\* when given and nonempty, else the conjunction of the filters, else everything
Selects(doc, called) ==
    IF called.queries # None /\ called.queries.pairs # <<>>
    THEN \A i \in 1..Len(called.queries.pairs) :
             doc[called.queries.pairs[i].key] = called.queries.pairs[i].value
    ELSE IF called.filters # None /\ called.filters.items # <<>>
    THEN \A j \in 1..Len(called.filters.items) :
             \A i \in 1..Len(called.filters.items[j].pairs) :
                 doc[called.filters.items[j].pairs[i].key]
                     = called.filters.items[j].pairs[i].value
    ELSE TRUE

\* the documents a call selects, in the order of the collection
Selected(docs, called) == SelectSeq(docs, LAMBDA doc : Selects(doc, called))

\* the _id of the document an update call addresses: the one passed to update_by_id,
\* that of the first selected document for update_one
Addressed(docs, called) ==
    IF called.method = "update_by_id" THEN called.id
    ELSE IF Selected(docs, called) # <<>> THEN Selected(docs, called)[1]._id
    ELSE None

IsCount(answer) == DOMAIN answer = {"py", "n"} /\ answer.py = "int"

\* C16: for an existing document update_by_id returns the document as it was before
\* the update with ReturnDocument.BEFORE, the document as it is after the update with
\* ReturnDocument.AFTER, and the update result (a count, no document) only without
\* return_document; update_one returns the same kind of result for the same value.
C16_ReturnDocumentKinds ==
    (/\ call.method \in {"update_by_id", "update_one"}
     /\ returned.exc = "none"
     /\ WithId(before, Addressed(before, call)) # None) =>
        CASE call.return_document = BEFORE ->
                 returned.response = WithId(before, Addressed(before, call))
          [] call.return_document = AFTER ->
                 returned.response = WithId(documents, Addressed(before, call))
          [] OTHER -> IsCount(returned.response)

\* the positions of a collection whose document a call changed
Changed(was, now) == {i \in 1..Len(was) : i > Len(now) \/ now[i] # was[i]}

\* C19: get_all, get_one, update_one, update_many and remove select documents the
\* same way: the queries dictionary when it is given and nonempty (filters are then
\* ignored), else the conjunction of the filters, else every document.
C19_SameSelection ==
    /\ (call.method = "get_all" /\ call.limit = None /\ call.offset = None) =>
           returned.response = PyList(Selected(before, call))
    /\ call.method = "get_one" =>
           returned.response = IF Selected(before, call) = <<>> THEN None
                               ELSE Selected(before, call)[1]
    /\ call.method = "update_many" =>
           /\ \A i \in Changed(before, documents) : Selects(before[i], call)
           /\ returned.response =
                  PyInt(Cardinality({i \in Changed(before, documents) :
                                        Selects(before[i], call)}))
    /\ call.method = "update_one" =>
           /\ \A i \in Changed(before, documents) : Selects(before[i], call)
           /\ (returned.exc = "none" /\ call.return_document = BEFORE
                  /\ Selected(before, call) # <<>>) =>
                  returned.response = Selected(before, call)[1]
    /\ call.method = "remove" =>
           /\ documents = SelectSeq(before, LAMBDA doc : ~Selects(doc, call))
           /\ returned.response = PyInt(Len(Selected(before, call)))

\* C20: update_one with upsert false writes nothing and returns 0 (no
\* return_document) or None (return_document given) when no document matches the
\* query, and modifies at most one document when documents match, however many do.
C20_UpdateOneFrame ==
    (call.method = "update_one" /\ ~call.upsert) =>
        IF Selected(before, call) = <<>>
        THEN /\ documents = before
             /\ returned.exc = "none"
             /\ returned.response = IF call.return_document = None THEN PyInt(0)
                                     ELSE None
        ELSE /\ Len(documents) = Len(before)
             /\ Cardinality(Changed(before, documents)) <= 1

====
